---- MODULE Spec2Model ----
(***************************************************************************)
(* A model of src/scraper.py (LinkedInScraper).                            *)
(*                                                                         *)
(* Text is modelled by TLA+ strings, handled character by character with   *)
(* Len, SubSeq and \o, so that Python's str.split, str.strip, `in` and     *)
(* endswith are computed as the interpreter computes them.                 *)
(***************************************************************************)
EXTENDS Integers, Sequences, FiniteSets, TLC

VARIABLES
    \* one run of main()
    pc,             \* where the run is
    dotenv,         \* the .env file: whether it exists and the two values
    email,          \* self.email
    password,       \* self.password
    driver,         \* self.driver: "None" or "session"
    session,        \* the browser session: "none", "open", "closed", "quit_failed"
    loginResult,    \* what login() did: "pending", "True", "False", "raised"
    urlsFile,       \* linkedin_urls.txt
    urls,           \* urls of scrape_profiles
    profiles_data,  \* profiles_data of scrape_profiles
    scraped,        \* per extract_profile_data call: the URL, the page served, the
                    \* fault, the record returned, and the stage whose exception
                    \* reached line 436 or was swallowed before ("none" if none)
    requested,      \* the URLs passed to driver.get, in order
    csvFile,        \* profiles.csv
    csvBefore,      \* profiles.csv as the run found it
    saveCalls,      \* number of save_to_csv calls
    saveResult,     \* how the write of lines 486-489 ended, "none" before it
    caught,         \* the stage whose exception the except of line 531 caught
    \* strategy 2 of the company on one headline, step by step
    hHeadline,      \* profile_data['Headline'] as strategy 2 finds it
    hTruncated,     \* headline after lines 319-323
    hCompany,       \* profile_data['Company'] after strategy 2
    hpc,
    \* the Name / Headline / Location loops on one page
    cField,         \* the field extracted
    cView,          \* the page's view for that field
    cValue,         \* profile_data[cField] after the loop
    cpc,
    \* the Company stages or the About stage on one page, step by step
    sField,         \* the field extracted: "Company" or "About"
    sPage,          \* the page's view for that field
    sFault,         \* the driver call that raises, if the stage gets to it
    profile_data,   \* profile_data of extract_profile_data
    sLog,           \* per step taken: its name and whether an exception left it
    spc

runVars == <<pc, dotenv, email, password, driver, session, loginResult, urlsFile,
             urls, profiles_data, scraped, requested, csvFile, csvBefore, saveCalls,
             saveResult, caught>>
headlineVars == <<hHeadline, hTruncated, hCompany, hpc>>
cascadeVars == <<cField, cView, cValue, cpc>>
stageVars == <<sField, sPage, sFault, profile_data, sLog, spc>>
vars == <<runVars, headlineVars, cascadeVars, stageVars>>

(***************************************************************************)
(* Python string primitives                                                *)
(***************************************************************************)

\* Characters str.strip() removes (the ASCII whitespace the model uses).
Whitespace == {" ", "\t", "\n"}

\* U+2022, the bullet of line 272, written as an ASCII stand-in.
BULLET == "*"

CharAt(s, i) == SubSeq(s, i, i)

\* s[i : i + len(sep)] == sep, for a 1-based i.
OccursAt(s, sep, i) ==
    /\ i >= 1
    /\ i + Len(sep) - 1 <= Len(s)
    /\ SubSeq(s, i, i + Len(sep) - 1) = sep

\* sep in s
Contains(s, sep) == \E i \in 1..(Len(s) + 1) : OccursAt(s, sep, i)

\* s.find(sep), 1-based; 0 when sep does not occur.
Find(s, sep) ==
    IF Contains(s, sep)
    THEN CHOOSE i \in 1..(Len(s) + 1) :
            /\ OccursAt(s, sep, i)
            /\ \A j \in 1..(i - 1) : ~OccursAt(s, sep, j)
    ELSE 0

\* s.endswith(suffix)
EndsWith(s, suffix) ==
    /\ Len(suffix) <= Len(s)
    /\ SubSeq(s, Len(s) - Len(suffix) + 1, Len(s)) = suffix

\* s[:-n]
DropLast(s, n) == IF Len(s) <= n THEN "" ELSE SubSeq(s, 1, Len(s) - n)

RECURSIVE LStrip(_)
LStrip(s) ==
    IF Len(s) > 0 /\ CharAt(s, 1) \in Whitespace
    THEN LStrip(SubSeq(s, 2, Len(s)))
    ELSE s

RECURSIVE RStrip(_)
RStrip(s) ==
    IF Len(s) > 0 /\ CharAt(s, Len(s)) \in Whitespace
    THEN RStrip(SubSeq(s, 1, Len(s) - 1))
    ELSE s

\* s.strip()
Strip(s) == RStrip(LStrip(s))

\* s.split(sep): the pieces between the occurrences of sep, found left to
\* right without overlap; always at least one piece.
RECURSIVE Split(_, _)
Split(s, sep) ==
    LET i == Find(s, sep)
    IN  IF i = 0
        THEN <<s>>
        ELSE <<SubSeq(s, 1, i - 1)>> \o Split(SubSeq(s, i + Len(sep), Len(s)), sep)

\* s.split(sep, 1): at most one cut, at the first occurrence.
SplitOnce(s, sep) ==
    LET i == Find(s, sep)
    IN  IF i = 0
        THEN <<s>>
        ELSE <<SubSeq(s, 1, i - 1), SubSeq(s, i + Len(sep), Len(s))>>

\* parts[-1]
Last(parts) == parts[Len(parts)]

(***************************************************************************)
(* Company from headline: extract_profile_data, strategy 2 (lines 315-350) *)
(***************************************************************************)

\* Lines 319-323 with the branches in the other order (" | " looked for first).
TruncateHeadlinePipeFirst(headline) ==
    IF Contains(headline, " | ")
    THEN Split(headline, " | ")[1]
    ELSE IF Contains(headline, " || ")
         THEN Split(headline, " || ")[1]
         ELSE headline

\* Lines 319-323: keep what precedes the first " || ", or else the first " | ".
TruncateHeadline(headline) ==
    IF Contains(headline, " || ")
    THEN Split(headline, " || ")[1]
    ELSE IF Contains(headline, " | ")
         THEN Split(headline, " | ")[1]
         ELSE headline

\* Lines 329-332 and 337-339: parts[-1].strip(), then the suffix clean-up.
CleanCompany(part) ==
    LET company == Strip(part)
    IN  IF EndsWith(company, " ||") \/ EndsWith(company, " |")
        THEN Strip(DropLast(company, 3))
        ELSE company

\* Lines 327-333 (sep = " at ") and 335-340 (sep = " @ "); sep occurs in headline.
CompanyAfter(headline, sep) == CleanCompany(Last(Split(headline, sep)))

\* Line 341 without the job-title test.
AnyJobTitle(headline) == TRUE

\* Line 341
HasJobTitle(headline) ==
    \/ Contains(headline, "Intern")
    \/ Contains(headline, "Developer")
    \/ Contains(headline, "Engineer")

\* Line 343
JobTitleSeparators == <<" @ ", " at ", " - ">>

\* Line 347: parts[1].split(' ||')[0].split(' |')[0].strip()
CompanyCandidate(headline, separator) ==
    Strip(Split(Split(SplitOnce(headline, separator)[2], " ||")[1], " |")[1])

\* Lines 343-350: the loop over the separators from index k on; the first
\* separator that occurs and leaves a non-empty candidate sets the company.
RECURSIVE CompanyFromJobTitle(_, _)
CompanyFromJobTitle(headline, k) ==
    IF k > Len(JobTitleSeparators)
    THEN ""
    ELSE LET separator == JobTitleSeparators[k]
         IN  IF Contains(headline, separator)
                /\ CompanyCandidate(headline, separator) # ""
             THEN CompanyCandidate(headline, separator)
             ELSE CompanyFromJobTitle(headline, k + 1)

\* Lines 326-350 on the truncated headline.
CompanyFromTruncated(headline) ==
    IF Contains(headline, " at ")
    THEN CompanyAfter(headline, " at ")
    ELSE IF Contains(headline, " @ ")
         THEN CompanyAfter(headline, " @ ")
         ELSE IF HasJobTitle(headline)
              THEN CompanyFromJobTitle(headline, 1)
              ELSE ""

\* Lines 317-350: the company strategy 2 derives from a non-empty headline.
CompanyFromHeadline(headline) == CompanyFromTruncated(TruncateHeadline(headline))

(***************************************************************************)
(* The page as the extractors see it.  For one field, a view is the        *)
(* sequence, in DOM order, of the elements some selector candidate of that *)
(* field matches; an element records which candidates (by index in the     *)
(* candidate list) match it and its text.                                  *)
(***************************************************************************)

\* Lengths of the candidate lists.
NumNameSelectors == 5
NumHeadlineSelectors == 5
NumLocationSelectors == 5
NumExperienceSelectors == 6
NumAboutSelectors == 10

\* Outcome of one extraction stage: the value it leaves in profile_data and
\* whether an exception left the stage.
Value(v) == [exc |-> FALSE, val |-> v]
Raised == [exc |-> TRUE, val |-> ""]

\* driver.find_elements(By.CSS_SELECTOR, candidate k): the matched elements.
FindElements(view, k) == SelectSeq(view, LAMBDA e : k \in e.sel)

\* Lines 235-238, 252-255: the text find_element's element contributes: the
\* first matched element's stripped text ("" when it is blank).
FirstElementText(matched) == Strip(matched[1].text)

\* Lines 233-240 (Name) and 250-257 (Headline): candidates k..n in order.
\* find_element raises NoSuchElementException when nothing matches, and the
\* loop continues; any other exception (faultAt = k) leaves the loop.
RECURSIVE ResolveSingle(_, _, _, _)
ResolveSingle(view, n, k, faultAt) ==
    IF k > n
    THEN Value("")
    ELSE IF k = faultAt
         THEN Raised
         ELSE LET matched == FindElements(view, k)
              IN  IF matched = <<>>
                  THEN ResolveSingle(view, n, k + 1, faultAt)
                  ELSE IF FirstElementText(matched) # ""
                       THEN Value(FirstElementText(matched))
                       ELSE ResolveSingle(view, n, k + 1, faultAt)

\* Line 272 accepting every non-empty text.
AnyLocationText(text) == text # ""

\* Line 272: text and ('*' not in text or len(text) > 5), on stripped text.
LocationFilter(text) ==
    /\ text # ""
    /\ (~Contains(text, BULLET) \/ Len(text) > 5)

\* Lines 270-274: the first element, in DOM order, whose text passes.
RECURSIVE FirstLocation(_)
FirstLocation(matched) ==
    IF matched = <<>>
    THEN ""
    ELSE IF LocationFilter(Strip(matched[1].text))
         THEN Strip(matched[1].text)
         ELSE FirstLocation(Tail(matched))

\* Lines 267-278 (Location): candidates k..n in order.
RECURSIVE ResolveLocation(_, _, _, _)
ResolveLocation(view, n, k, faultAt) ==
    IF k > n
    THEN Value("")
    ELSE IF k = faultAt
         THEN Raised
         ELSE IF FirstLocation(FindElements(view, k)) # ""
              THEN Value(FirstLocation(FindElements(view, k)))
              ELSE ResolveLocation(view, n, k + 1, faultAt)

ExtractName(view, faultAt) == ResolveSingle(view, NumNameSelectors, 1, faultAt)
ExtractHeadline(view, faultAt) == ResolveSingle(view, NumHeadlineSelectors, 1, faultAt)
ExtractLocation(view, faultAt) == ResolveLocation(view, NumLocationSelectors, 1, faultAt)

(***************************************************************************)
(* Company, strategy 1 (lines 282-313).  The experience view gives, per    *)
(* experience candidate, whether a section matches, whether that section   *)
(* has a first entry, and the entry's text.                                *)
(***************************************************************************)

\* Line 301: the stripped lines that are non-empty and longer than 2.
RECURSIVE MeaningfulLines(_)
MeaningfulLines(parts) ==
    IF parts = <<>>
    THEN <<>>
    ELSE LET line == Strip(parts[1])
         IN  (IF line # "" /\ Len(line) > 2 THEN <<line>> ELSE <<>>)
             \o MeaningfulLines(Tail(parts))

\* Lines 301-308 taking the first meaningful line whenever there is one.
CompanyFirstLine(company_text) ==
    LET lines == MeaningfulLines(Split(company_text, "\n"))
    IN  IF Len(lines) >= 1 THEN lines[1] ELSE company_text

\* Lines 301-308: the company taken from a non-empty entry text.
CompanyFromEntry(company_text) ==
    LET lines == MeaningfulLines(Split(company_text, "\n"))
    IN  IF Len(lines) >= 2
        THEN lines[2]
        ELSE IF Len(lines) = 1
             THEN lines[1]
             ELSE company_text

\* Lines 291-313 with every exception of a candidate handled as line 310
\* handles NoSuchElementException: the next candidate is tried.
RECURSIVE CompanyStage1Continues(_, _, _)
CompanyStage1Continues(view, k, faultAt) ==
    IF k > NumExperienceSelectors
    THEN Value("")
    ELSE IF k = faultAt \/ ~view[k].section \/ ~view[k].entry
         THEN CompanyStage1Continues(view, k + 1, faultAt)
         ELSE IF Strip(view[k].text) # ""
              THEN Value(CompanyFromEntry(Strip(view[k].text)))
              ELSE CompanyStage1Continues(view, k + 1, faultAt)

\* Lines 291-313: candidates k..n in order.  NoSuchElementException (no
\* section, or no first entry) continues with the next candidate, and so
\* does an entry with blank text; any other exception (faultAt = k) leaves
\* the loop through the except of line 312, Company still empty.
RECURSIVE CompanyStage1(_, _, _)
CompanyStage1(view, k, faultAt) ==
    IF k > NumExperienceSelectors
    THEN Value("")
    ELSE IF k = faultAt
         THEN Raised
         ELSE IF ~view[k].section \/ ~view[k].entry
              THEN CompanyStage1(view, k + 1, faultAt)
              ELSE IF Strip(view[k].text) # ""
                   THEN Value(CompanyFromEntry(Strip(view[k].text)))
                   ELSE CompanyStage1(view, k + 1, faultAt)

\* Lines 282-350: strategy 1, then strategy 2 when it left Company empty
\* and a headline was extracted.
ExtractCompany(view, headline, faultAt) ==
    LET stage1 == CompanyStage1(view, 1, faultAt).val
    IN  IF stage1 = "" /\ headline # ""
        THEN CompanyFromHeadline(headline)
        ELSE stage1

(***************************************************************************)
(* About (lines 353-431).  The about view gives the elements the about     *)
(* candidates match, whether the h2 heading of line 414 exists, and the    *)
(* text of the next sibling of its parent ("" when there is none).         *)
(***************************************************************************)

\* Line 403 without its test of the first ten characters.
AboutFilterNoHeader(about_text) ==
    /\ about_text # ""
    /\ Len(about_text) > 20

\* Line 403
AboutFilter(about_text) ==
    /\ about_text # ""
    /\ Len(about_text) > 20
    /\ ~Contains(SubSeq(about_text, 1, 10), "About")

\* Lines 400-405: the first element, in DOM order, whose text passes.
RECURSIVE FirstAbout(_)
FirstAbout(matched) ==
    IF matched = <<>>
    THEN ""
    ELSE IF AboutFilter(Strip(matched[1].text))
         THEN Strip(matched[1].text)
         ELSE FirstAbout(Tail(matched))

\* Lines 397-409: candidates k..n in order; an exception other than
\* NoSuchElementException (faultAt = k) leaves through line 430.
RECURSIVE ResolveAbout(_, _, _)
ResolveAbout(view, k, faultAt) ==
    IF k > NumAboutSelectors
    THEN Value("")
    ELSE IF k = faultAt
         THEN Raised
         ELSE IF FirstAbout(FindElements(view, k)) # ""
              THEN Value(FirstAbout(FindElements(view, k)))
              ELSE ResolveAbout(view, k + 1, faultAt)

\* Lines 412-429: the text next to the heading, when longer than 20; a
\* missing heading or any other exception (fallbackFault) is swallowed.
AboutFallback(view, fallbackFault) ==
    IF fallbackFault \/ ~view.heading
    THEN ""
    ELSE IF Strip(view.sibling) # "" /\ Len(Strip(view.sibling)) > 20
         THEN Strip(view.sibling)
         ELSE ""

\* Lines 353-431.  The scroll (355-360) and the "show more" clicks (371-382)
\* swallow their own exceptions and set no field.
ExtractAbout(view, faultAt, fallbackFault) ==
    LET found == ResolveAbout(view.elems, 1, faultAt)
    IN  IF found.exc
        THEN ""
        ELSE IF found.val # ""
             THEN found.val
             ELSE AboutFallback(view, fallbackFault)

(***************************************************************************)
(* extract_profile_data (lines 196-444)                                    *)
(***************************************************************************)

\* Lines 212-218 and 438-444
EmptyRecord ==
    [Name |-> "", Headline |-> "", Company |-> "", Location |-> "", About |-> ""]

\* A fault is the driver call of one URL's scrape that raises an exception
\* other than NoSuchElementException, if the scrape gets that far: the
\* stage and, in a candidate loop, the candidate index.
NoFault == [stage |-> "none", at |-> 0]

FaultAt(fault, stage) == IF fault.stage = stage THEN fault.at ELSE 0

\* The stage whose exception leaves extract_profile_data through the except
\* of line 436 ("none" when no exception gets there).
OuterException(page, fault) ==
    IF fault.stage \in {"get", "body_wait"}
    THEN fault.stage
    ELSE IF ExtractName(page.name, FaultAt(fault, "name")).exc
         THEN "name"
         ELSE IF ExtractHeadline(page.headline, FaultAt(fault, "headline")).exc
              THEN "headline"
              ELSE IF ExtractLocation(page.location, FaultAt(fault, "location")).exc
                   THEN "location"
                   ELSE "none"

\* The stage whose exception is caught inside extract_profile_data by the
\* handlers of lines 312, 428 and 430 ("none" when there is none).
InnerException(page, fault) ==
    IF OuterException(page, fault) # "none"
    THEN "none"
    ELSE IF CompanyStage1(page.experience, 1, FaultAt(fault, "experience")).exc
         THEN "experience"
         ELSE IF ResolveAbout(page.about.elems, 1, FaultAt(fault, "about")).exc
              THEN "about"
              ELSE IF /\ fault.stage = "about_fallback"
                      /\ ResolveAbout(page.about.elems, 1, 0).val = ""
                   THEN "about_fallback"
                   ELSE "none"

\* Lines 225-431, no exception reaching line 436: the fields extracted.
ProfileData(page, fault) ==
    LET headline == ExtractHeadline(page.headline, FaultAt(fault, "headline")).val
    IN  [Name |-> ExtractName(page.name, FaultAt(fault, "name")).val,
         Headline |-> headline,
         Company |-> ExtractCompany(page.experience, headline,
                                    FaultAt(fault, "experience")),
         Location |-> ExtractLocation(page.location, FaultAt(fault, "location")).val,
         About |-> ExtractAbout(page.about, FaultAt(fault, "about"),
                                fault.stage = "about_fallback")]

\* Lines 208-444 with the except of line 436 returning profile_data as the
\* exception found it, where the code returns a fresh all-empty record.
ReturnPartialRecord(page, fault) ==
    LET stage == OuterException(page, fault)
        name == ExtractName(page.name, FaultAt(fault, "name")).val
        headline == ExtractHeadline(page.headline, FaultAt(fault, "headline")).val
    IN  IF stage = "none"
        THEN ProfileData(page, fault)
        ELSE IF stage = "headline"
             THEN [EmptyRecord EXCEPT !.Name = name]
             ELSE IF stage = "location"
                  THEN [EmptyRecord EXCEPT !.Name = name, !.Headline = headline]
                  ELSE EmptyRecord

\* Lines 208-444: the record returned for a page and a fault.
extract_profile_data(page, fault) ==
    IF OuterException(page, fault) # "none"
    THEN EmptyRecord
    ELSE ProfileData(page, fault)

(***************************************************************************)
(* LinkedInScraper.__init__ (lines 32-106)                                 *)
(***************************************************************************)

UpperLetters == "ABCDEFGHIJKLMNOPQRSTUVWXYZ"
LowerLetters == "abcdefghijklmnopqrstuvwxyz"

\* The lower-case letter of each upper-case letter.
LowerOf ==
    LET upper == {CharAt(UpperLetters, i) : i \in 1..Len(UpperLetters)}
    IN  [c \in upper |->
            CharAt(LowerLetters, CHOOSE i \in 1..Len(UpperLetters) : CharAt(UpperLetters, i) = c)]

LowerChar(c) == IF c \in DOMAIN LowerOf THEN LowerOf[c] ELSE c

\* s.lower()
RECURSIVE Lower(_)
Lower(s) ==
    IF s = "" THEN "" ELSE LowerChar(CharAt(s, 1)) \o Lower(SubSeq(s, 2, Len(s)))

\* Lines 62-63: os.getenv(name, '').strip(); an unset variable reads as ''.
Getenv(env, name) == IF env[name].set THEN Strip(env[name].value) ELSE ""

\* Line 97 without its test of the password.
PlaceholderEmailOnly(e, p) == Contains(Lower(e), "your_email")

\* Line 97
LooksPlaceholder(e, p) ==
    \/ Contains(Lower(e), "your_email")
    \/ Contains(Lower(p), "your_password")
    \/ Contains(Lower(p), "here")

\* Lines 48, 73 and 97: the conditions under which __init__ raises ValueError.
ConfigError(env) ==
    \/ ~env.exists
    \/ Getenv(env, "LINKEDIN_EMAIL") = ""
    \/ Getenv(env, "LINKEDIN_PASSWORD") = ""
    \/ LooksPlaceholder(Getenv(env, "LINKEDIN_EMAIL"), Getenv(env, "LINKEDIN_PASSWORD"))

(***************************************************************************)
(* login (lines 155-194), read_urls_from_file (446-467), save_to_csv       *)
(* (469-491)                                                               *)
(***************************************************************************)

\* Line 158
LoginUrl == "https://www.linkedin.com/login"

\* Line 182: the test of driver.current_url.
IsAuthenticated(current_url) ==
    \/ Contains(current_url, "feed")
    \/ Contains(current_url, "linkedin.com/in/")

\* s.startswith(prefix)
StartsWith(s, prefix) == Len(prefix) <= Len(s) /\ SubSeq(s, 1, Len(prefix)) = prefix

\* Lines 459-462: the stripped lines that are non-empty and start with http.
RECURSIVE ReadUrlLines(_)
ReadUrlLines(lines) ==
    IF lines = <<>>
    THEN <<>>
    ELSE LET url == Strip(lines[1])
         IN  (IF url # "" /\ StartsWith(url, "http") THEN <<url>> ELSE <<>>)
             \o ReadUrlLines(Tail(lines))

\* Lines 456-467: FileNotFoundError gives the empty list.
read_urls_from_file(file) ==
    IF file.state = "absent" THEN <<>> ELSE ReadUrlLines(file.lines)

\* Line 481
fieldnames == <<"Name", "Headline", "Company", "Location", "About">>

\* csv.DictWriter.writerow: the record's values in the order of fieldnames.
CsvRow(record) == [k \in 1..Len(fieldnames) |-> record[fieldnames[k]]]

\* Lines 486-489: open(filename, 'w') truncates; then the header, then a row
\* per record.
CsvContent(records) ==
    <<fieldnames>> \o [k \in 1..Len(records) |-> CsvRow(records[k])]

\* Lines 486-489 with the file opened in append mode.
CsvAppended(old, records) ==
    IF old.exists
    THEN [exists |-> TRUE, rows |-> old.rows \o CsvContent(records)]
    ELSE [exists |-> TRUE, rows |-> CsvContent(records)]

\* Lines 486-489: the file after a write that succeeds.
CsvWritten(old, records) == [exists |-> TRUE, rows |-> CsvContent(records)]

\* What a write that fails part-way can leave: the file is truncated by
\* open, and holds nothing, or the header and the first n rows.
CsvPartial(records) ==
    {[exists |-> TRUE, rows |-> <<>>]}
    \cup {[exists |-> TRUE, rows |-> SubSeq(CsvContent(records), 1, n + 1)] :
             n \in 0..(Len(records) - 1)}

(***************************************************************************)
(* Inputs of a run                                                         *)
(***************************************************************************)

\* Most lines linkedin_urls.txt holds.
MaxUrlLines == 2

Unset == [set |-> FALSE, value |-> ""]
Setting(v) == [set |-> TRUE, value |-> v]

EmailSettings ==
    {Unset, Setting("  "), Setting("Your_Email@example.com"),
     Setting(" tester@example.com ")}

PasswordSettings ==
    {Unset, Setting(""), Setting("YOUR_PASSWORD"), Setting("enter-it-here"),
     Setting("hunter2")}

DotEnvs ==
    [exists : BOOLEAN, LINKEDIN_EMAIL : EmailSettings,
     LINKEDIN_PASSWORD : PasswordSettings]

\* Lines as `for line in f` yields them.
UrlLines == {"https://in/ada", "  https://in/bob \n", "notes\n"}

RECURSIVE SeqsUpTo(_, _)
SeqsUpTo(S, n) ==
    IF n = 0
    THEN {<<>>}
    ELSE SeqsUpTo(S, n - 1)
         \cup {Append(q, x) : q \in {r \in SeqsUpTo(S, n - 1) : Len(r) = n - 1}, x \in S}

UrlFiles ==
    {[state |-> "absent", lines |-> <<>>], [state |-> "unreadable", lines |-> <<>>]}
    \cup {[state |-> "ok", lines |-> l] : l \in SeqsUpTo(UrlLines, MaxUrlLines)}

\* driver.current_url after the login form is submitted.
UrlsAfterLogin ==
    {"https://www.linkedin.com/feed/", "https://www.linkedin.com/in/tester/",
     "https://www.linkedin.com/checkpoint/challenge", LoginUrl}

El(sel, text) == [sel |-> sel, text |-> text]

NoExperience ==
    [k \in 1..NumExperienceSelectors |-> [section |-> FALSE, entry |-> FALSE, text |-> ""]]

\* A profile page with every section.
PageFull ==
    [name |-> <<El({1, 5}, "Ada Lovelace")>>,
     headline |-> <<El({1, 5}, "Engineer at Acme")>>,
     location |-> <<El({1, 3, 5}, BULLET), El({1, 3, 5}, "London " \o BULLET \o " UK")>>,
     experience |-> [NoExperience EXCEPT
                        ![3] = [section |-> TRUE, entry |-> TRUE,
                                text |-> "Analyst\nBabbage Ltd\n1840"]],
     about |-> [elems |-> <<El({3}, "Mathematician and writer."),
                            El({9, 10}, "About\nMathematician and writer.")>>,
                heading |-> TRUE,
                sibling |-> "Mathematician and writer."]]

\* A profile page with no experience section and no about element.
PageSparse ==
    [name |-> <<El({5}, " "), El({4, 5}, "Bob")>>,
     headline |-> <<El({5}, "Intern @ Beta Inc")>>,
     location |-> <<>>,
     experience |-> NoExperience,
     about |-> [elems |-> <<>>, heading |-> TRUE,
                sibling |-> " Builds things that last. "]]

Pages == {PageFull, PageSparse}

Fault(stage, at) == [stage |-> stage, at |-> at]

Faults ==
    {NoFault, Fault("get", 0), Fault("body_wait", 0), Fault("name", 1),
     Fault("headline", 1), Fault("location", 2), Fault("experience", 1),
     Fault("about", 1), Fault("about_fallback", 0)}

\* What an earlier run left of profiles.csv.
StaleRecord ==
    [Name |-> "Old Name", Headline |-> "", Company |-> "", Location |-> "", About |-> ""]

CsvFiles ==
    {[exists |-> FALSE, rows |-> <<>>],
     [exists |-> TRUE, rows |-> CsvContent(<<StaleRecord, StaleRecord>>)]}

(***************************************************************************)
(* main and scrape_profiles (lines 493-549)                                *)
(***************************************************************************)

HeadlineIdle == hHeadline = "" /\ hTruncated = "" /\ hCompany = "" /\ hpc = "idle"
CascadeIdle == cField = "" /\ cView = <<>> /\ cValue = "" /\ cpc = "idle"
StageIdle ==
    /\ sField = "" /\ sPage = <<>> /\ sFault = 0
    /\ profile_data = EmptyRecord /\ sLog = <<>> /\ spc = "idle"

\* The run's variables while the model follows one function only.
RunIdle ==
    /\ pc = "idle"
    /\ dotenv = [exists |-> FALSE, LINKEDIN_EMAIL |-> Unset, LINKEDIN_PASSWORD |-> Unset]
    /\ email = ""
    /\ password = ""
    /\ driver = "None"
    /\ session = "none"
    /\ loginResult = "pending"
    /\ urlsFile = [state |-> "absent", lines |-> <<>>]
    /\ urls = <<>>
    /\ profiles_data = <<>>
    /\ scraped = <<>>
    /\ requested = <<>>
    /\ csvFile = [exists |-> FALSE, rows |-> <<>>]
    /\ csvBefore = csvFile
    /\ saveCalls = 0
    /\ saveResult = "none"
    /\ caught = "none"

Init ==
    /\ pc = "main"
    /\ dotenv \in DotEnvs
    /\ email = ""
    /\ password = ""
    /\ driver = "None"
    /\ session = "none"
    /\ loginResult = "pending"
    /\ urlsFile \in UrlFiles
    /\ urls = <<>>
    /\ profiles_data = <<>>
    /\ scraped = <<>>
    /\ requested = <<>>
    /\ csvFile \in CsvFiles
    /\ csvBefore = csvFile
    /\ saveCalls = 0
    /\ saveResult = "none"
    /\ caught = "none"
    /\ HeadlineIdle
    /\ CascadeIdle
    /\ StageIdle

\* Line 548, __init__ raising ValueError: main ends with it, before line 549.
ConstructFails ==
    /\ pc = "main"
    /\ ConfigError(dotenv)
    /\ pc' = "config_error"
    /\ UNCHANGED <<dotenv, email, password, driver, session, loginResult, urlsFile,
                   urls, profiles_data, scraped, requested, csvFile, csvBefore, saveCalls, saveResult, caught>>
    /\ UNCHANGED <<headlineVars, cascadeVars, stageVars>>

\* Line 548, __init__ returning: the credentials are kept.
Construct ==
    /\ pc = "main"
    /\ ~ConfigError(dotenv)
    /\ email' = Getenv(dotenv, "LINKEDIN_EMAIL")
    /\ password' = Getenv(dotenv, "LINKEDIN_PASSWORD")
    /\ pc' = "setup"
    /\ UNCHANGED <<dotenv, driver, session, loginResult, urlsFile,
                   urls, profiles_data, scraped, requested, csvFile, csvBefore, saveCalls, saveResult, caught>>
    /\ UNCHANGED <<headlineVars, cascadeVars, stageVars>>

\* Line 503, setup_driver (108-153).  uc.Chrome may fail once and succeed on
\* the retry of line 135, or fail twice and raise; maximize_window may raise
\* with self.driver already set; a failure of execute_cdp_cmd is swallowed.
SetupOutcomes == {"created", "created_on_retry", "create_failed", "maximize_failed", "cdp_failed"}

SetupDriver ==
    /\ pc = "setup"
    /\ \E outcome \in SetupOutcomes :
          /\ driver' = IF outcome = "create_failed" THEN "None" ELSE "session"
          /\ session' = IF outcome = "create_failed" THEN "none" ELSE "open"
          /\ caught' = IF outcome \in {"create_failed", "maximize_failed"}
                       THEN "setup" ELSE "none"
          /\ pc' = IF outcome \in {"create_failed", "maximize_failed"}
                   THEN "finally" ELSE "login"
    /\ UNCHANGED <<dotenv, email, password, loginResult, urlsFile,
                   urls, profiles_data, scraped, requested, csvFile, csvBefore, saveCalls,
                   saveResult>>
    /\ UNCHANGED <<headlineVars, cascadeVars, stageVars>>

\* Line 506, login raising: driver.get of line 158 is outside login's try.
LoginRaises ==
    /\ pc = "login"
    /\ requested' = Append(requested, LoginUrl)
    /\ loginResult' = "raised"
    /\ caught' = "login"
    /\ pc' = "finally"
    /\ UNCHANGED <<dotenv, email, password, driver, session, urlsFile,
                   urls, profiles_data, scraped, csvFile, csvBefore, saveCalls, saveResult>>
    /\ UNCHANGED <<headlineVars, cascadeVars, stageVars>>

\* Lines 506-508, login returning: False on TimeoutException or any other
\* exception inside its try (189-194), else the test of line 182.
LoginSteps == {"timeout", "error", "submitted"}

\* Lines 506-508 without the return of line 508.
AfterLoginNoReturn(result) == "read_urls"

\* Lines 506-508: where scrape_profiles goes on after login returned result.
AfterLogin(result) == IF result THEN "read_urls" ELSE "finally"

Login ==
    /\ pc = "login"
    /\ requested' = Append(requested, LoginUrl)
    /\ \E step \in LoginSteps, current_url \in UrlsAfterLogin :
          LET result == step = "submitted" /\ IsAuthenticated(current_url)
          IN  /\ loginResult' = IF result THEN "True" ELSE "False"
              /\ pc' = AfterLogin(result)
    /\ UNCHANGED <<dotenv, email, password, driver, session, urlsFile,
                   urls, profiles_data, scraped, csvFile, csvBefore, saveCalls, saveResult, caught>>
    /\ UNCHANGED <<headlineVars, cascadeVars, stageVars>>

\* Line 511 raising: an error other than FileNotFoundError while reading.
ReadUrlsRaises ==
    /\ pc = "read_urls"
    /\ urlsFile.state = "unreadable"
    /\ caught' = "read_urls"
    /\ pc' = "finally"
    /\ UNCHANGED <<dotenv, email, password, driver, session, loginResult, urlsFile,
                   urls, profiles_data, scraped, requested, csvFile, csvBefore, saveCalls,
                   saveResult>>
    /\ UNCHANGED <<headlineVars, cascadeVars, stageVars>>

\* Lines 511-516: return when there is no URL, else start the loop.
ReadUrls ==
    /\ pc = "read_urls"
    /\ urlsFile.state # "unreadable"
    /\ urls' = read_urls_from_file(urlsFile)
    /\ profiles_data' = <<>>
    /\ pc' = IF read_urls_from_file(urlsFile) = <<>> THEN "finally" ELSE "scrape"
    /\ UNCHANGED <<dotenv, email, password, driver, session, loginResult, urlsFile,
                   scraped, requested, csvFile, csvBefore, saveCalls, saveResult, caught>>
    /\ UNCHANGED <<headlineVars, cascadeVars, stageVars>>

\* Line 520 dropping the record of a scrape that failed.
AppendIfScraped(records, record) ==
    IF record = EmptyRecord THEN records ELSE Append(records, record)

\* Line 520
AppendRecord(records, record) == Append(records, record)

\* Lines 517-526: one iteration of the loop, on the next URL.
ScrapeProfile ==
    /\ pc = "scrape"
    /\ Len(scraped) < Len(urls)
    /\ \E page \in Pages, fault \in Faults :
          LET url == urls[Len(scraped) + 1]
          IN  /\ requested' = Append(requested, url)
              /\ scraped' = Append(scraped,
                                    [url |-> url, page |-> page, fault |-> fault,
                                     returned |-> extract_profile_data(page, fault),
                                     outer |-> OuterException(page, fault),
                                     inner |-> InnerException(page, fault)])
              /\ profiles_data' = AppendRecord(profiles_data, extract_profile_data(page, fault))
              /\ pc' = IF Len(scraped) + 1 = Len(urls) THEN "save" ELSE "scrape"
    /\ UNCHANGED <<dotenv, email, password, driver, session, loginResult, urlsFile,
                   urls, csvFile, csvBefore, saveCalls, saveResult, caught>>
    /\ UNCHANGED <<headlineVars, cascadeVars, stageVars>>

\* Lines 531-532: the except catches what save_to_csv raised, and prints it.
SaveFaultCaught(outcome) ==
    IF outcome \in {"open_failed", "write_failed"} THEN "save" ELSE "none"

SaveOutcomes == {"written", "open_failed", "write_failed"}

\* Line 529, save_to_csv (lines 477-491): nothing is written for an empty
\* list; else the file is opened for writing and rewritten.
SaveToCsv ==
    /\ pc = "save"
    /\ saveCalls' = saveCalls + 1
    /\ \E outcome \in (IF profiles_data = <<>> THEN {"no_data"} ELSE SaveOutcomes) :
          /\ csvFile' \in CASE outcome = "written" -> {CsvWritten(csvFile, profiles_data)}
                            [] outcome = "write_failed" -> CsvPartial(profiles_data)
                            [] OTHER -> {csvFile}
          /\ saveResult' = outcome
          /\ caught' = SaveFaultCaught(outcome)
    /\ pc' = "finally"
    /\ UNCHANGED <<dotenv, email, password, driver, session, loginResult, urlsFile,
                   urls, profiles_data, scraped, requested, csvBefore>>
    /\ UNCHANGED <<headlineVars, cascadeVars, stageVars>>

\* Lines 534-543 leaving the session open when an exception was caught.
QuitUnlessCaught(d, c) == d # "None" /\ c = "none"

\* Line 534: if self.driver, whatever the except of line 531 caught.
QuitNeeded(d, c) == d # "None"

\* Lines 533-543: quit the driver if there is one, swallow what quit raises,
\* and return to main.
QuitOutcomes == {"closed", "quit_failed"}

Cleanup ==
    /\ pc = "finally"
    /\ IF QuitNeeded(driver, caught)
       THEN \E outcome \in QuitOutcomes : session' = outcome
       ELSE session' = session
    /\ driver' = "None"
    /\ pc' = "returned"
    /\ UNCHANGED <<dotenv, email, password, loginResult, urlsFile,
                   urls, profiles_data, scraped, requested, csvFile, csvBefore, saveCalls, saveResult, caught>>
    /\ UNCHANGED <<headlineVars, cascadeVars, stageVars>>

Next ==
    \/ ConstructFails
    \/ Construct
    \/ SetupDriver
    \/ LoginRaises
    \/ Login
    \/ ReadUrlsRaises
    \/ ReadUrls
    \/ ScrapeProfile
    \/ SaveToCsv
    \/ Cleanup

Spec == Init /\ [][Next]_vars

(***************************************************************************)
(* Company strategy 2 on one headline, one step per branch of lines        *)
(* 316-350                                                                 *)
(***************************************************************************)

\* Most pieces a generated headline is made of.
MaxPieces == 4

HeadlinePieces == {"A", " ", "|", " at ", " @ ", " - ", " || ", " | ", "Engineer"}

RECURSIVE PieceStrings(_)
PieceStrings(n) ==
    IF n = 0
    THEN {""}
    ELSE PieceStrings(n - 1) \cup {s \o p : s \in PieceStrings(n - 1), p \in HeadlinePieces}

ExampleHeadlines ==
    {"Software Engineer at Acme || Teaching Assistant at State U",
     "Intern @ Beta Inc",
     "Engineer at Acme | Python || Teacher at State U",
     "Manager - Acme",
     "Developer - Acme | Remote",
     "Dev at Acme |",
     "Chef at at Home",
     "Student"}

\* profile_data['Headline'] is stripped text, and strategy 2 needs it non-empty.
Headlines ==
    {h \in {Strip(s) : s \in PieceStrings(MaxPieces)} : h # ""} \cup ExampleHeadlines

InitHeadline ==
    /\ RunIdle
    /\ CascadeIdle
    /\ StageIdle
    /\ hHeadline \in Headlines
    /\ hTruncated = ""
    /\ hCompany = ""
    /\ hpc = "truncate"

\* Lines 316-323
HTruncate ==
    /\ hpc = "truncate"
    /\ hCompany = "" /\ hHeadline # ""
    /\ hTruncated' = TruncateHeadline(hHeadline)
    /\ hpc' = "separator"
    /\ UNCHANGED <<hHeadline, hCompany>>
    /\ UNCHANGED <<runVars, cascadeVars, stageVars>>

\* Lines 326-333
HCompanyAt ==
    /\ hpc = "separator"
    /\ Contains(hTruncated, " at ")
    /\ hCompany' = CompanyAfter(hTruncated, " at ")
    /\ hpc' = "done"
    /\ UNCHANGED <<hHeadline, hTruncated>>
    /\ UNCHANGED <<runVars, cascadeVars, stageVars>>

\* Lines 334-340
HCompanyAtSign ==
    /\ hpc = "separator"
    /\ ~Contains(hTruncated, " at ")
    /\ Contains(hTruncated, " @ ")
    /\ hCompany' = CompanyAfter(hTruncated, " @ ")
    /\ hpc' = "done"
    /\ UNCHANGED <<hHeadline, hTruncated>>
    /\ UNCHANGED <<runVars, cascadeVars, stageVars>>

\* Lines 341-350
HCompanyJobTitle ==
    /\ hpc = "separator"
    /\ ~Contains(hTruncated, " at ")
    /\ ~Contains(hTruncated, " @ ")
    /\ HasJobTitle(hTruncated)
    /\ hCompany' = CompanyFromJobTitle(hTruncated, 1)
    /\ hpc' = "done"
    /\ UNCHANGED <<hHeadline, hTruncated>>
    /\ UNCHANGED <<runVars, cascadeVars, stageVars>>

\* Lines 326-350, no branch taken: Company stays empty.
HNoCompany ==
    /\ hpc = "separator"
    /\ ~Contains(hTruncated, " at ")
    /\ ~Contains(hTruncated, " @ ")
    /\ ~HasJobTitle(hTruncated)
    /\ hpc' = "done"
    /\ UNCHANGED <<hHeadline, hTruncated, hCompany>>
    /\ UNCHANGED <<runVars, cascadeVars, stageVars>>

NextHeadline ==
    \/ HTruncate
    \/ HCompanyAt
    \/ HCompanyAtSign
    \/ HCompanyJobTitle
    \/ HNoCompany

SpecHeadline == InitHeadline /\ [][NextHeadline]_vars

(***************************************************************************)
(* The Name, Headline and Location loops on one page (lines 225-278)       *)
(***************************************************************************)

\* Most elements a generated view holds.
MaxElems == 2

\* The sets of candidates one element can match: the last candidate of the
\* Name and Headline lists ("h1", ".text-body-medium") matches whatever an
\* earlier one matches, and so does ".text-body-small" for the Location
\* candidates other than [data-test-id='location'].
ElemKinds(f) ==
    IF f = "Location"
    THEN {{5}, {1, 5}, {3, 5}, {4}}
    ELSE {{5}, {1, 5}, {3, 5}, {4, 5}}

ElemTexts(f) ==
    IF f = "Location"
    THEN {" ", BULLET, "A " \o BULLET \o " B", "AB " \o BULLET \o " C",
          "Remote " \o BULLET \o " USA", " Kochi"}
    ELSE {"", " \n", "Acme Corp", " Bob "}

Views(f) ==
    SeqsUpTo({El(k, t) : k \in ElemKinds(f), t \in ElemTexts(f)}, MaxElems)

InitCascade ==
    /\ RunIdle
    /\ HeadlineIdle
    /\ StageIdle
    /\ cField \in {"Name", "Headline", "Location"}
    /\ cView \in Views(cField)
    /\ cValue = ""
    /\ cpc = "extract"

\* Lines 225-240
CExtractName ==
    /\ cpc = "extract"
    /\ cField = "Name"
    /\ cValue' = ExtractName(cView, 0).val
    /\ cpc' = "done"
    /\ UNCHANGED <<cField, cView>>
    /\ UNCHANGED <<runVars, headlineVars, stageVars>>

\* Lines 242-257
CExtractHeadline ==
    /\ cpc = "extract"
    /\ cField = "Headline"
    /\ cValue' = ExtractHeadline(cView, 0).val
    /\ cpc' = "done"
    /\ UNCHANGED <<cField, cView>>
    /\ UNCHANGED <<runVars, headlineVars, stageVars>>

\* Lines 259-278
CExtractLocation ==
    /\ cpc = "extract"
    /\ cField = "Location"
    /\ cValue' = ExtractLocation(cView, 0).val
    /\ cpc' = "done"
    /\ UNCHANGED <<cField, cView>>
    /\ UNCHANGED <<runVars, headlineVars, stageVars>>

NextCascade ==
    \/ CExtractName
    \/ CExtractHeadline
    \/ CExtractLocation

SpecCascade == InitCascade /\ [][NextCascade]_vars

(***************************************************************************)
(* The two Company stages on one page (lines 280-350)                      *)
(***************************************************************************)

\* Most experience candidates that match a section in a generated page.
MaxSections == 2

\* What one experience candidate finds: no section, a section without a
\* first entry, or a first entry and its text.
ExperienceEntries ==
    {[section |-> TRUE, entry |-> FALSE, text |-> ""],
     [section |-> TRUE, entry |-> TRUE, text |-> " \n "],
     [section |-> TRUE, entry |-> TRUE, text |-> "Analyst\nBabbage Ltd\n1840"],
     [section |-> TRUE, entry |-> TRUE, text |-> " Acme Corp "],
     [section |-> TRUE, entry |-> TRUE, text |-> "ab\n\nxy"],
     [section |-> TRUE, entry |-> TRUE, text |-> "Dev\nat\n Initech"]}

\* The page where the candidates of DOMAIN found match what found gives.
ExperienceView(found) ==
    [k \in 1..NumExperienceSelectors |->
        IF k \in DOMAIN found THEN found[k] ELSE NoExperience[k]]

ExperienceViews ==
    {ExperienceView(found) :
        found \in UNION {[S -> ExperienceEntries] :
                            S \in {T \in SUBSET (1..NumExperienceSelectors) :
                                      Cardinality(T) <= MaxSections}}}

\* The call of find_element (or .text) of the experience loop that raises an
\* exception other than NoSuchElementException.
ExperienceFaults == {NoFault} \cup {Fault("experience", k) : k \in 1..3}

\* profile_data['Headline'] as the Headline loop left it.
ExtractedHeadlines == {"", "Engineer at Acme", "Manager"}

\* Lines 212-278: profile_data when the Company stages start.
ProfileBeforeCompany(headline) ==
    [Name |-> "Ada Lovelace", Headline |-> headline, Company |-> "",
     Location |-> "London", About |-> ""]

InitCompany ==
    /\ RunIdle
    /\ HeadlineIdle
    /\ CascadeIdle
    /\ sField = "Company"
    /\ sPage \in ExperienceViews
    /\ sFault \in ExperienceFaults
    /\ profile_data \in {ProfileBeforeCompany(h) : h \in ExtractedHeadlines}
    /\ sLog = <<>>
    /\ spc = "stage1"

\* Lines 282-313
SCompanyStage1 ==
    /\ spc = "stage1"
    /\ LET found == CompanyStage1(sPage, 1, FaultAt(sFault, "experience"))
       IN  /\ profile_data' = [profile_data EXCEPT !.Company = found.val]
           /\ sLog' = Append(sLog, [step |-> "stage1", exc |-> found.exc,
                                    before |-> profile_data, company |-> found.val])
    /\ spc' = "stage2"
    /\ UNCHANGED <<sField, sPage, sFault>>
    /\ UNCHANGED <<runVars, headlineVars, cascadeVars>>

\* Lines 316-350, the condition of line 316 true
SCompanyStage2 ==
    /\ spc = "stage2"
    /\ profile_data.Company = "" /\ profile_data.Headline # ""
    /\ profile_data' =
          [profile_data EXCEPT !.Company = CompanyFromHeadline(profile_data.Headline)]
    /\ sLog' = Append(sLog, [step |-> "stage2", exc |-> FALSE,
                             before |-> profile_data,
                             company |-> CompanyFromHeadline(profile_data.Headline)])
    /\ spc' = "done"
    /\ UNCHANGED <<sField, sPage, sFault>>
    /\ UNCHANGED <<runVars, headlineVars, cascadeVars>>

\* Line 316, the condition false
SCompanyStage2Skipped ==
    /\ spc = "stage2"
    /\ ~(profile_data.Company = "" /\ profile_data.Headline # "")
    /\ spc' = "done"
    /\ UNCHANGED <<sField, sPage, sFault, profile_data, sLog>>
    /\ UNCHANGED <<runVars, headlineVars, cascadeVars>>

NextCompany ==
    \/ SCompanyStage1
    \/ SCompanyStage2
    \/ SCompanyStage2Skipped

SpecCompany == InitCompany /\ [][NextCompany]_vars

(***************************************************************************)
(* The About candidates and the fallback on one page (lines 384-431)       *)
(***************************************************************************)

\* The sets of about candidates one element can match.
AboutKinds == {{1, 7}, {8}, {9, 10}}

AboutTexts ==
    {" ", "Exactly twenty chars", " Mathematician and writer. ", "About",
     "About me: I build compilers.", "Engineer. About compilers too."}

\* The heading of line 414 and the text next to it.
AboutSiblings ==
    {[heading |-> FALSE, sibling |-> ""],
     [heading |-> TRUE, sibling |-> ""],
     [heading |-> TRUE, sibling |-> "Exactly twenty chars"],
     [heading |-> TRUE, sibling |-> " Builds things which last. "]}

AboutViews ==
    {[elems |-> e, heading |-> h.heading, sibling |-> h.sibling] :
        e \in SeqsUpTo({El(k, t) : k \in AboutKinds, t \in AboutTexts}, MaxElems),
        h \in AboutSiblings}

\* The driver call of the About stage that raises an exception other than
\* NoSuchElementException.
AboutFaults == {NoFault, Fault("about", 8), Fault("about_fallback", 0)}

InitAbout ==
    /\ RunIdle
    /\ HeadlineIdle
    /\ CascadeIdle
    /\ sField = "About"
    /\ sPage \in AboutViews
    /\ sFault \in AboutFaults
    /\ profile_data = ProfileBeforeCompany("Engineer at Acme")
    /\ sLog = <<>>
    /\ spc = "candidates"

\* Lines 384-409, and the except of line 430 when the loop raises
SAboutCandidates ==
    /\ spc = "candidates"
    /\ LET found == ResolveAbout(sPage.elems, 1, FaultAt(sFault, "about"))
       IN  /\ profile_data' = [profile_data EXCEPT !.About = found.val]
           /\ sLog' = Append(sLog, [step |-> "candidates", exc |-> found.exc,
                                    before |-> profile_data])
           /\ spc' = IF found.exc THEN "done" ELSE "fallback"
    /\ UNCHANGED <<sField, sPage, sFault>>
    /\ UNCHANGED <<runVars, headlineVars, cascadeVars>>

\* Lines 412-429, the condition of line 412 true
SAboutFallback ==
    /\ spc = "fallback"
    /\ profile_data.About = ""
    /\ profile_data' =
          [profile_data EXCEPT
              !.About = AboutFallback(sPage, sFault.stage = "about_fallback")]
    /\ sLog' = Append(sLog, [step |-> "fallback",
                             exc |-> sFault.stage = "about_fallback",
                             before |-> profile_data])
    /\ spc' = "done"
    /\ UNCHANGED <<sField, sPage, sFault>>
    /\ UNCHANGED <<runVars, headlineVars, cascadeVars>>

\* Line 412, the condition false
SAboutFallbackSkipped ==
    /\ spc = "fallback"
    /\ profile_data.About # ""
    /\ spc' = "done"
    /\ UNCHANGED <<sField, sPage, sFault, profile_data, sLog>>
    /\ UNCHANGED <<runVars, headlineVars, cascadeVars>>

NextAbout ==
    \/ SAboutCandidates
    \/ SAboutFallback
    \/ SAboutFallbackSkipped

SpecAbout == InitAbout /\ [][NextAbout]_vars

(***************************************************************************)
(* Properties of a run                                                     *)
(***************************************************************************)

\* C1: when the scraping loop has finished, profiles_data holds exactly one
\* record per URL of the list, and record i is what extract_profile_data
\* returned for the i-th URL, failed scrapes included.
C1_OneRecordPerUrl ==
    (pc = "save" \/ saveCalls > 0) =>
        /\ Len(profiles_data) = Len(urls)
        /\ Len(scraped) = Len(urls)
        /\ \A i \in 1..Len(urls) :
              /\ scraped[i].url = urls[i]
              /\ profiles_data[i] = scraped[i].returned

\* The loop finished on a list that names one URL twice, the first scrape
\* having failed and the second not.
C1_Witness ==
    /\ pc = "save"
    /\ Len(urls) = 2
    /\ urls[1] = urls[2]
    /\ scraped[1].outer # "none"
    /\ profiles_data[1] = EmptyRecord
    /\ profiles_data[2] # EmptyRecord

\* The scrape of URL i raised an exception somewhere.
ExceptionRaised(i) == scraped[i].outer # "none" \/ scraped[i].inner # "none"

\* The batch goes on: the loop never stops short of the list, and once it is
\* over every URL has been requested, in order, after the login page.
BatchGoesOn ==
    /\ pc = "scrape" => Len(scraped) < Len(urls)
    /\ (pc = "save" \/ saveCalls > 0) => requested = <<LoginUrl>> \o urls

\* C2 as stated: whatever raises while one URL is scraped, the record of
\* that URL is the all-empty record, and the batch goes on.
C2_AnyExceptionEmptiesRecord ==
    /\ \A i \in 1..Len(scraped) : ExceptionRaised(i) => profiles_data[i] = EmptyRecord
    /\ BatchGoesOn

\* C2 as amended: an exception of the page fetch, the body wait or the
\* Name, Headline or Location loop gives the all-empty record; an exception
\* inside company strategy 1 or the About extraction is swallowed there and
\* the record keeps the Name, Headline and Location already extracted; in
\* both cases the batch goes on.
C2_ExceptionHandledPerUrl ==
    /\ \A i \in 1..Len(scraped) :
          LET page == scraped[i].page
          IN  /\ scraped[i].outer # "none" => profiles_data[i] = EmptyRecord
              /\ scraped[i].inner # "none" =>
                    /\ profiles_data[i].Name = ExtractName(page.name, 0).val
                    /\ profiles_data[i].Headline = ExtractHeadline(page.headline, 0).val
                    /\ profiles_data[i].Location = ExtractLocation(page.location, 0).val
    /\ BatchGoesOn

\* The Location loop raised on the first URL, after the Name was found, an
\* exception inside strategy 1 was swallowed on the second URL, and the
\* loop went on to its end.
C2_Witness ==
    /\ pc = "save"
    /\ Len(urls) = 2
    /\ scraped[1].outer = "location"
    /\ ExtractName(scraped[1].page.name, 0).val # ""
    /\ scraped[2].inner = "experience"
    /\ profiles_data[2].Name # ""

\* C3: whenever scrape_profiles has returned, a session that was created is
\* no longer open: quit was called on it, and when quit raised, the run
\* still returned to main.
C3_SessionClosedOnEveryExit ==
    /\ pc = "returned" => session # "open" /\ driver = "None"
    /\ session \in {"closed", "quit_failed"} => pc = "returned"

\* scrape_profiles returned after the write of the output failed and quit
\* raised.
C3_Witness ==
    /\ pc = "returned"
    /\ caught = "save"
    /\ session = "quit_failed"

\* C4: with a credential missing, empty or looking like a placeholder, the
\* run stops in the constructor: no session is ever created and no page is
\* ever requested.
C4_BadCredentialsNoBrowser ==
    LET e == IF dotenv.LINKEDIN_EMAIL.set THEN Strip(dotenv.LINKEDIN_EMAIL.value) ELSE ""
        p == IF dotenv.LINKEDIN_PASSWORD.set THEN Strip(dotenv.LINKEDIN_PASSWORD.value) ELSE ""
        bad == \/ e = ""
               \/ p = ""
               \/ Contains(Lower(e), "your_email")
               \/ Contains(Lower(p), "your_password")
               \/ Contains(Lower(p), "here")
    IN  bad =>
           /\ pc \in {"main", "config_error"}
           /\ driver = "None"
           /\ session = "none"
           /\ requested = <<>>

\* The constructor raised on a .env file that exists and holds a usable
\* e-mail address and a placeholder password.
C4_Witness ==
    /\ pc = "config_error"
    /\ dotenv.exists
    /\ dotenv.LINKEDIN_EMAIL = Setting(" tester@example.com ")
    /\ dotenv.LINKEDIN_PASSWORD = Setting("enter-it-here")

\* C5: once login has returned False or raised, no profile URL is ever
\* requested, save_to_csv is never called, and the run only cleans up.
C5_NoScrapeWithoutLogin ==
    loginResult \in {"False", "raised"} =>
        /\ pc \in {"finally", "returned"}
        /\ requested = <<LoginUrl>>
        /\ scraped = <<>>
        /\ saveCalls = 0
        /\ csvFile = csvBefore

\* login returned False with URLs waiting in the file, and the run is over.
C5_Witness ==
    /\ pc = "returned"
    /\ loginResult = "False"
    /\ read_urls_from_file(urlsFile) # <<>>

\* C6 as stated: when the write of the output file raised, scrape_profiles
\* does not return normally to its caller.
C6_SaveFaultReachesCaller ==
    saveResult \in {"open_failed", "write_failed"} => pc # "returned"

\* C7 as stated: every run that got past login, and met no fault after it,
\* leaves the file holding the header and one row per URL of the list, in
\* order, the list being empty or not.
C7_FileRewrittenEveryRun ==
    (pc = "returned" /\ loginResult = "True" /\ caught = "none") =>
        /\ csvFile.exists
        /\ Len(csvFile.rows) = Len(urls) + 1
        /\ csvFile.rows[1] = <<"Name", "Headline", "Company", "Location", "About">>
        /\ \A i \in 1..Len(urls) :
              /\ i <= Len(profiles_data)
              /\ csvFile.rows[i + 1] =
                    <<profiles_data[i].Name, profiles_data[i].Headline,
                      profiles_data[i].Company, profiles_data[i].Location,
                      profiles_data[i].About>>

\* C7 as amended: a run whose write of the output succeeded leaves the file
\* holding the header and one row per URL of the list, in order, and nothing
\* of what it held before; a run that got past login and found no URL (empty
\* list, no URL file) leaves the file as it found it.
C7_FileRewrittenWhenWritten ==
    /\ saveResult = "written" =>
          /\ csvFile.exists
          /\ Len(csvFile.rows) = Len(urls) + 1
          /\ Len(urls) >= 1
          /\ csvFile.rows[1] = <<"Name", "Headline", "Company", "Location", "About">>
          /\ \A i \in 1..Len(urls) :
                csvFile.rows[i + 1] =
                    <<profiles_data[i].Name, profiles_data[i].Headline,
                      profiles_data[i].Company, profiles_data[i].Location,
                      profiles_data[i].About>>
    /\ (pc = "returned" /\ loginResult = "True" /\ caught = "none" /\ urls = <<>>) =>
          /\ saveCalls = 0
          /\ csvFile = csvBefore

\* A run over two URLs, both records all-empty, rewrote a file that held the
\* rows of an earlier run.
C7_Witness ==
    /\ pc = "returned"
    /\ saveResult = "written"
    /\ csvBefore.exists
    /\ Len(urls) = 2
    /\ profiles_data = <<EmptyRecord, EmptyRecord>>

(***************************************************************************)
(* Properties of company strategy 2                                        *)
(***************************************************************************)

\* The 1-based index of the first occurrence of sep in s; 0 when there is none.
FirstOccurrence(s, sep) ==
    IF \E k \in 1..Len(s) : OccursAt(s, sep, k)
    THEN CHOOSE k \in 1..Len(s) :
            OccursAt(s, sep, k) /\ \A j \in 1..(k - 1) : ~OccursAt(s, sep, j)
    ELSE 0

\* s cut at the first occurrence of sep, the prefix kept; s when there is none.
CutAtFirst(s, sep) ==
    IF FirstOccurrence(s, sep) = 0 THEN s ELSE SubSeq(s, 1, FirstOccurrence(s, sep) - 1)

\* What follows the first occurrence of sep in s.
AfterFirst(s, sep) == SubSeq(s, FirstOccurrence(s, sep) + Len(sep), Len(s))

\* Where the last piece of s begins when s is cut at the occurrences of sep
\* met from position i on, left to right, an occurrence starting only where
\* the one before has ended.
RECURSIVE LastPieceStart(_, _, _)
LastPieceStart(s, sep, i) ==
    IF \E k \in i..Len(s) : OccursAt(s, sep, k)
    THEN LastPieceStart(s, sep,
            (CHOOSE k \in i..Len(s) :
                OccursAt(s, sep, k) /\ \A j \in i..(k - 1) : ~OccursAt(s, sep, j))
            + Len(sep))
    ELSE i

\* The company the amended C9 gives for separator " at " or " @ ": the last
\* piece, trimmed, and with its last three characters dropped and trimmed
\* again when it ends with " ||" or " |".
LastPieceCompany(s, sep) ==
    LET piece == Strip(SubSeq(s, LastPieceStart(s, sep, 1), Len(s)))
    IN  IF EndsWith(piece, " ||") \/ EndsWith(piece, " |")
        THEN Strip(SubSeq(piece, 1, Len(piece) - 3))
        ELSE piece

\* C8 as stated: the headline is cut at the first " || " and then at the
\* first " | ", both cuts applied; the company comes from that prefix and
\* holds neither " | " nor " || ".
C8_BothTruncations ==
    /\ hpc \in {"separator", "done"} =>
          hTruncated = CutAtFirst(CutAtFirst(hHeadline, " || "), " | ")
    /\ hpc = "done" =>
          /\ ~Contains(hCompany, " | ")
          /\ ~Contains(hCompany, " || ")

\* C8 as amended: the headline is cut at the first " || " when there is
\* one, and only otherwise at the first " | " (one cut, the prefix kept);
\* the company is a part of that prefix, so it never holds " || ", and
\* "Software Engineer at Acme || Teaching Assistant at State U" gives "Acme".
C8_OneTruncation ==
    /\ hpc \in {"separator", "done"} =>
          hTruncated = IF FirstOccurrence(hHeadline, " || ") # 0
                       THEN CutAtFirst(hHeadline, " || ")
                       ELSE CutAtFirst(hHeadline, " | ")
    /\ hpc = "done" =>
          /\ Contains(hTruncated, hCompany)
          /\ ~Contains(hCompany, " || ")
          /\ hHeadline = "Software Engineer at Acme || Teaching Assistant at State U"
                => hCompany = "Acme"

\* Strategy 2 ended on a headline that holds " | " before " || ": the cut
\* was made at " || " only, and the company holds " | ".
C8_Witness ==
    /\ hpc = "done"
    /\ hHeadline = "Engineer at Acme | Python || Teacher at State U"
    /\ hTruncated = "Engineer at Acme | Python"
    /\ hCompany = "Acme | Python"

\* C9 as stated: the company is the trimmed text after the first of " at ",
\* " @ ", " - ", in that order, that occurs in the truncated headline,
\* whatever the job title, and empty when none occurs.
C9_FirstSeparatorAnyTitle ==
    hpc = "done" =>
        hCompany =
            IF FirstOccurrence(hTruncated, " at ") # 0
            THEN Strip(AfterFirst(hTruncated, " at "))
            ELSE IF FirstOccurrence(hTruncated, " @ ") # 0
                 THEN Strip(AfterFirst(hTruncated, " @ "))
                 ELSE IF FirstOccurrence(hTruncated, " - ") # 0
                      THEN Strip(AfterFirst(hTruncated, " - "))
                      ELSE ""

\* C9 as amended: " at " is tried, then " @ ": the company is the last piece
\* of the truncated headline split at that separator, trimmed, and, when it
\* ends with " ||" or " |", shortened by three characters and trimmed again.
\* " - " is tried only when neither occurs and the headline holds "Intern",
\* "Developer" or "Engineer": the company is then the text after the first
\* " - ", cut at the first " ||" and then at the first " |", trimmed.
\* Otherwise the company is empty.  "Intern @ Beta Inc" gives "Beta Inc".
C9_SeparatorsInOrder ==
    hpc = "done" =>
        /\ hCompany =
              IF FirstOccurrence(hTruncated, " at ") # 0
              THEN LastPieceCompany(hTruncated, " at ")
              ELSE IF FirstOccurrence(hTruncated, " @ ") # 0
                   THEN LastPieceCompany(hTruncated, " @ ")
                   ELSE IF /\ FirstOccurrence(hTruncated, " - ") # 0
                           /\ \/ FirstOccurrence(hTruncated, "Intern") # 0
                              \/ FirstOccurrence(hTruncated, "Developer") # 0
                              \/ FirstOccurrence(hTruncated, "Engineer") # 0
                        THEN Strip(CutAtFirst(CutAtFirst(AfterFirst(hTruncated, " - "),
                                                         " ||"), " |"))
                        ELSE ""
        /\ hHeadline = "Intern @ Beta Inc" => hCompany = "Beta Inc"

\* Strategy 2 ended on a headline whose only separator is " - " and whose
\* job title is none of the three: the company is empty.
C9_Witness ==
    /\ hpc = "done"
    /\ hHeadline = "Manager - Acme"
    /\ hTruncated = "Manager - Acme"
    /\ hCompany = ""

(***************************************************************************)
(* Properties of the Name, Headline and Location loops                     *)
(***************************************************************************)

\* A text qualifies when trimming leaves something and, for Location, it is
\* not a text of at most 5 characters that holds a bullet.
Qualifies(f, text) ==
    /\ Strip(text) # ""
    /\ f = "Location" => ~(Contains(Strip(text), BULLET) /\ Len(Strip(text)) <= 5)

\* Positions in the view of the elements candidate k matches.
MatchesOf(v, k) == {i \in 1..Len(v) : k \in v[i].sel}

Least(S) == CHOOSE i \in S : \A j \in S : i <= j

\* The value when every element a candidate matches is looked at: the first
\* qualifying element, in DOM order, of the first candidate that matches a
\* qualifying element.
ScanAllValue(f, v) ==
    LET good(k) == {i \in MatchesOf(v, k) : Qualifies(f, v[i].text)}
        cands == {k \in 1..NumLocationSelectors : good(k) # {}}
    IN  IF cands = {} THEN "" ELSE Strip(v[Least(good(Least(cands)))].text)

\* The value when only the first element a candidate matches is looked at:
\* that element's text, for the first candidate whose first element qualifies.
FirstOnlyValue(f, v) ==
    LET first(k) == Least(MatchesOf(v, k))
        cands == {k \in 1..NumNameSelectors :
                     MatchesOf(v, k) # {} /\ Qualifies(f, v[first(k)].text)}
    IN  IF cands = {} THEN "" ELSE Strip(v[first(Least(cands))].text)

\* C10 as stated: for Name, Headline and Location alike, the value is the
\* trimmed text of the first qualifying element of the first candidate
\* that has a qualifying element, and empty when no candidate has one.
C10_FirstQualifyingElement ==
    cpc = "done" => cValue = ScanAllValue(cField, cView)

\* C10 as amended: that holds for Location, whose loop looks at every
\* element a candidate matches.  For Name and Headline only the first
\* element a candidate matches is looked at: a candidate whose first element
\* is blank is skipped even when a later element of it has text, and the
\* value is the trimmed text of the first candidate's first element that is
\* not blank.  In all three the value is empty when no candidate qualifies,
\* and candidates [A, B, C] with A matching nothing, B blank and C
\* "Acme Corp" give "Acme Corp".
C10_CascadeValue ==
    cpc = "done" =>
        /\ cField = "Location" => cValue = ScanAllValue(cField, cView)
        /\ cField \in {"Name", "Headline"} => cValue = FirstOnlyValue(cField, cView)
        /\ cView = <<El({3, 5}, " \n"), El({4, 5}, "Acme Corp")>> => cValue = "Acme Corp"

\* The Name loop ended on a page where candidates 1 and 2 match nothing,
\* candidate 3 matches a blank element and candidate 4 matches "Acme Corp".
C10_Witness ==
    /\ cpc = "done"
    /\ cField = "Name"
    /\ cView = <<El({3, 5}, " \n"), El({4, 5}, "Acme Corp")>>
    /\ cValue = "Acme Corp"

(***************************************************************************)
(* Properties of the Company stages                                        *)
(***************************************************************************)

\* The experience candidates whose section has a first entry with text.
WithText(v) ==
    {k \in 1..NumExperienceSelectors :
        v[k].section /\ v[k].entry /\ Strip(v[k].text) # ""}

\* The lines of a text, trimmed, that are longer than 2 characters.
LongLines(text) ==
    LET parts == Split(text, "\n")
    IN  SelectSeq([i \in 1..Len(parts) |-> Strip(parts[i])], LAMBDA l : Len(l) > 2)

\* The log entries of a step.
Steps(name) == {i \in 1..Len(sLog) : sLog[i].step = name}

\* C11: when stage 1 has run to the first experience candidate whose first
\* entry has text, the company it leaves is the second of that entry's lines
\* that are non-empty and longer than 2 characters when there are two or more
\* of them, and that line when there is exactly one; stage 2 has run only when
\* stage 1 left the company empty and the headline extracted is non-empty, so
\* at the end a company found by stage 1 is still the company.
C11_CompanyStages ==
    (sField = "Company" /\ Len(sLog) >= 1) =>
        /\ (~sLog[1].exc /\ WithText(sPage) # {}) =>
              LET lines == LongLines(sPage[Least(WithText(sPage))].text)
              IN  /\ Len(lines) >= 2 => sLog[1].company = lines[2]
                  /\ Len(lines) = 1 => sLog[1].company = lines[1]
        /\ Steps("stage2") # {} =>
              sLog[1].company = "" /\ profile_data.Headline # ""
        /\ (spc = "done" /\ sLog[1].company # "") =>
              profile_data.Company = sLog[1].company

\* Stage 1 found the second line of the entry of the third candidate, the
\* first two candidates having no entry with text, and the run ended with
\* that company although a headline naming another company was extracted.
C11_Witness ==
    /\ sField = "Company"
    /\ spc = "done"
    /\ WithText(sPage) = {3}
    /\ sPage[1].section /\ ~sPage[1].entry
    /\ sPage[3].text = "Analyst\nBabbage Ltd\n1840"
    /\ profile_data.Headline = "Engineer at Acme"
    /\ profile_data.Company = "Babbage Ltd"
    /\ Steps("stage2") = {}

\* Stage 1 gets to the candidate whose driver call raises: no earlier
\* candidate has an entry with text.
Thrown ==
    /\ sFault.stage = "experience"
    /\ \A j \in WithText(sPage) : j >= sFault.at

\* The page with candidate k finding no section.
NotFoundAt(v, k) == [v EXCEPT ![k] = [section |-> FALSE, entry |-> FALSE, text |-> ""]]

\* Name, Headline and Location are as stage 1 found them.
ExtractedFieldsKept ==
    /\ profile_data.Name = sLog[1].before.Name
    /\ profile_data.Headline = sLog[1].before.Headline
    /\ profile_data.Location = sLog[1].before.Location

\* C12 as claimed: when a driver call of stage 1 raises for one candidate,
\* stage 1 leaves the company it would leave had that candidate found no
\* section (the remaining candidates are tried in order), and Name, Headline
\* and Location are unchanged.
C12_FaultyCandidateSkipped ==
    (sField = "Company" /\ Len(sLog) >= 1 /\ Thrown) =>
        /\ LET rest == WithText(NotFoundAt(sPage, sFault.at))
           IN  IF rest = {}
               THEN sLog[1].company = ""
               ELSE sLog[1].company = CompanyFromEntry(Strip(sPage[Least(rest)].text))
        /\ ExtractedFieldsKept

\* C12 as amended: when a driver call of stage 1 raises for one candidate an
\* exception other than NoSuchElementException, stage 1 ends there with the
\* company empty, whatever the remaining candidates match; the extraction
\* goes on to stage 2, which runs when a headline was extracted; Name,
\* Headline and Location are unchanged.  When no call raises, a candidate
\* without a section or a first entry is skipped and stage 1 finds a company
\* exactly when some candidate's first entry has text.
C12_FaultEndsStage1 ==
    (sField = "Company" /\ Len(sLog) >= 1) =>
        /\ Thrown => sLog[1].exc /\ sLog[1].company = ""
        /\ ~Thrown => ~sLog[1].exc /\ (sLog[1].company # "" <=> WithText(sPage) # {})
        /\ spc \in {"stage2", "done"}
        /\ (Thrown /\ spc = "done") =>
              (profile_data.Headline # "" <=> Steps("stage2") # {})
        /\ ExtractedFieldsKept

\* The call for the first candidate raised while the third candidate's first
\* entry names a company: stage 1 left the company empty and the company
\* came from the headline.
C12_Witness ==
    /\ sField = "Company"
    /\ spc = "done"
    /\ sFault = Fault("experience", 1)
    /\ sPage[3].text = "Analyst\nBabbage Ltd\n1840"
    /\ sLog[1].exc
    /\ sLog[1].company = ""
    /\ profile_data.Headline = "Engineer at Acme"
    /\ profile_data.Company = "Acme"
    /\ profile_data.Name = "Ada Lovelace"

(***************************************************************************)
(* Properties of the About stage                                           *)
(***************************************************************************)

\* The candidates that match an element whose trimmed text passes P.
Passing(v, P(_)) ==
    {k \in 1..NumAboutSelectors : \E i \in MatchesOf(v, k) : P(Strip(v[i].text))}

\* The trimmed text of the first element passing P, in candidate priority
\* then DOM order.
FirstPassing(v, P(_)) ==
    LET k == Least(Passing(v, P))
        i == Least({j \in MatchesOf(v, k) : P(Strip(v[j].text))})
    IN  Strip(v[i].text)

\* The text next to the About heading when it is longer than 20 characters.
SiblingText ==
    IF sPage.heading /\ Len(Strip(sPage.sibling)) > 20
    THEN Strip(sPage.sibling)
    ELSE ""

\* The filter as claimed: only text shorter than 20 characters and the bare
\* header label are rejected.
ClaimedAboutFilter(t) == Len(t) >= 20 /\ t # "About"

\* The filter of the amended claim: longer than 20 characters and no "About"
\* within the first 10 characters.
HeaderAboutFilter(t) ==
    /\ Len(t) > 20
    /\ \A i \in 1..6 : SubSeq(t, i, i + 4) # "About"

\* C13 as claimed: with no call raising, About is the trimmed text of the
\* first candidate element, in candidate priority then DOM order, that is
\* neither shorter than 20 characters nor the bare header label; without one
\* it is the text next to the About heading when longer than 20 characters,
\* and otherwise it is empty.
C13_AboutAsClaimed ==
    (sField = "About" /\ spc = "done" /\ sFault = NoFault) =>
        profile_data.About =
            IF Passing(sPage.elems, ClaimedAboutFilter) # {}
            THEN FirstPassing(sPage.elems, ClaimedAboutFilter)
            ELSE SiblingText

\* C13 as amended: About is the trimmed text of the first candidate element,
\* in candidate priority then DOM order, whose text is longer than 20
\* characters and has no "About" within its first 10 characters; without one
\* it is the text next to the About heading when longer than 20 characters,
\* and otherwise it is empty.  A call of the candidate loop that raises
\* before such an element is found, or a call of the fallback that raises,
\* leaves About empty.
C13_AboutValue ==
    (sField = "About" /\ spc = "done") =>
        LET passing == Passing(sPage.elems, HeaderAboutFilter)
            loopThrown == /\ sFault.stage = "about"
                          /\ \A k \in passing : k >= sFault.at
        IN  profile_data.About =
                IF loopThrown
                THEN ""
                ELSE IF passing # {}
                     THEN FirstPassing(sPage.elems, HeaderAboutFilter)
                     ELSE IF sFault.stage = "about_fallback"
                          THEN ""
                          ELSE SiblingText

\* The only candidate element has 20 characters and the text next to the
\* heading has 25: About is the text next to the heading.
C13_Witness ==
    /\ sField = "About"
    /\ spc = "done"
    /\ sFault = NoFault
    /\ sPage.elems = <<El({8}, "Exactly twenty chars")>>
    /\ Len(Strip(sPage.sibling)) = 25
    /\ Steps("fallback") # {}
    /\ profile_data.About = "Builds things which last."

====
